---- MODULE Spec2Model ----
(***************************************************************************)
(* JWT validation middleware of the collabhub music backend                *)
(* (internal/api/middleware/jwt.go): the gin handler ValidateJWT, the key  *)
(* cache getPublicKey guarded by a sync.RWMutex, and the JWK to RSA key    *)
(* reconstruction parseRSAPublicKey.                                       *)
(*                                                                         *)
(* Time is counted in ticks; Hour ticks make the one hour of the cache     *)
(* TTL.  Signatures are modelled symbolically: a token carries the public  *)
(* half of the pair that signed it and rsa verification succeeds exactly   *)
(* when that equals the key handed to it.                                  *)
(***************************************************************************)
EXTENDS Integers, Sequences, FiniteSets, TLC

\* ------------------------------------------------------------- bounds
\* Requests served at the same time in the concurrent specification.
MaxCallers == 2
\* The clock runs from 0 to MaxTime.
MaxTime == 2
\* The moduli 1..MaxModulus are among the keys of the round trip.
MaxModulus == 40

\* time.Hour of the TTL test, in ticks.
Hour == 2

Callers == 1..MaxCallers
Times == 0..MaxTime

\* ----------------------------------------------- base64url, big integers
\* The alphabet of base64.RawURLEncoding.
B64Alphabet ==
  << "A","B","C","D","E","F","G","H","I","J","K","L","M","N","O","P",
     "Q","R","S","T","U","V","W","X","Y","Z","a","b","c","d","e","f",
     "g","h","i","j","k","l","m","n","o","p","q","r","s","t","u","v",
     "w","x","y","z","0","1","2","3","4","5","6","7","8","9","-","_" >>

B64Index(c) == CHOOSE i \in 1..64 : B64Alphabet[i] = c

B64Valid(s) ==
  /\ \A i \in 1..Len(s) : \E k \in 1..64 : B64Alphabet[k] = s[i]
  /\ Len(s) % 4 # 1

RECURSIVE B64Bytes(_)
\* The bytes of a sequence of 6-bit values; the bits left over in a final
\* group of two or three values are dropped (the decoder is not strict).
B64Bytes(v) ==
  IF Len(v) < 2 THEN << >>
  ELSE LET b1 == v[1] * 4 + (v[2] \div 16)
       IN IF Len(v) = 2 THEN << b1 >>
          ELSE LET b2 == (v[2] % 16) * 16 + (v[3] \div 4)
               IN IF Len(v) = 3 THEN << b1, b2 >>
                  ELSE << b1, b2, (v[3] % 4) * 64 + v[4] >>
                       \o B64Bytes(SubSeq(v, 5, Len(v)))

\* base64.RawURLEncoding.DecodeString: [ok, bytes].
DecodeString(s) ==
  IF B64Valid(s)
  THEN [ok |-> TRUE, bytes |-> B64Bytes([i \in 1..Len(s) |-> B64Index(s[i]) - 1])]
  ELSE [ok |-> FALSE, bytes |-> << >>]

RECURSIVE StripZeros(_)
StripZeros(bs) ==
  IF bs # << >> /\ bs[1] = 0 THEN StripZeros(Tail(bs)) ELSE bs

RECURSIVE BytesToIntLittleEndian(_)
\* BytesToInt that reads the least significant byte first.
BytesToIntLittleEndian(bs) ==
  IF bs = << >> THEN 0
  ELSE bs[1] + 256 * BytesToIntLittleEndian(Tail(bs))

RECURSIVE BytesToInt(_)
\* big.Int.SetBytes: the big-endian unsigned value.
BytesToInt(bs) ==
  IF bs = << >> THEN 0
  ELSE BytesToInt(SubSeq(bs, 1, Len(bs) - 1)) * 256 + bs[Len(bs)]

\* big.Int.IsInt64 of a non-negative value given by its bytes.
IsInt64(bs) ==
  LET m == StripZeros(bs)
  IN Len(m) < 8 \/ (Len(m) = 8 /\ m[1] < 128)

\* The absent key (a nil *rsa.PublicKey).
NoKey == [N |-> 0, E |-> 0]

\* parseRSAPublicKey: [ok, key].
parseRSAPublicKey(jwk) ==
  LET n == DecodeString(jwk.n)
      e == DecodeString(jwk.e)
  IN IF ~n.ok THEN [ok |-> FALSE, key |-> NoKey]
     ELSE IF ~e.ok THEN [ok |-> FALSE, key |-> NoKey]
     ELSE IF ~IsInt64(e.bytes) THEN [ok |-> FALSE, key |-> NoKey]
     ELSE [ok |-> TRUE,
           key |-> [N |-> BytesToInt(n.bytes), E |-> BytesToInt(e.bytes)]]

\* ------------------------------------------- the provider's encoding
RECURSIVE IntToBytes(_)
\* The big-endian unsigned bytes of a number, none for 0 (big.Int.Bytes).
IntToBytes(n) ==
  IF n = 0 THEN << >> ELSE Append(IntToBytes(n \div 256), n % 256)

RECURSIVE B64Values(_)
\* The 6-bit values of a sequence of bytes, without padding.
B64Values(bs) ==
  IF bs = << >> THEN << >>
  ELSE IF Len(bs) = 1
  THEN << bs[1] \div 4, (bs[1] % 4) * 16 >>
  ELSE IF Len(bs) = 2
  THEN << bs[1] \div 4, (bs[1] % 4) * 16 + (bs[2] \div 16), (bs[2] % 16) * 4 >>
  ELSE << bs[1] \div 4, (bs[1] % 4) * 16 + (bs[2] \div 16),
          (bs[2] % 16) * 4 + (bs[3] \div 64), bs[3] % 64 >>
       \o B64Values(SubSeq(bs, 4, Len(bs)))

\* base64.RawURLEncoding.EncodeToString.
EncodeToString(bs) ==
  [i \in 1..Len(B64Values(bs)) |-> B64Alphabet[B64Values(bs)[i] + 1]]

\* The JWK a provider publishes for an RSA public key under a kid.
JwkOf(kid, k) ==
  [kty |-> "RSA", kid |-> kid, n |-> EncodeToString(IntToBytes(k.N)),
   e |-> EncodeToString(IntToBytes(k.E))]

\* The public keys of the round trip: moduli and exponents of one to four
\* bytes, with the values around each change of length.
RoundTripKeys ==
  [N : (1..MaxModulus) \cup {255, 256, 3233, 65535, 65536, 16777215, 16777216},
   E : {1, 3, 17, 255, 256, 65537, 33554432}]

\* Each key of the round trip with what the provider publishes for it
\* under kid abc123.
Published == { [key |-> k, jwk |-> JwkOf("abc123", k)] : k \in RoundTripKeys }

\* ------------------------------------------------------ provider key sets
\* Two key pairs of the provider, by their public halves.
KeyA == [N |-> 3233, E |-> 17]
KeyB == [N |-> 2773, E |-> 17]

JwkA == [kty |-> "RSA", kid |-> "abc123", n |-> <<"D","K","E">>, e |-> <<"E","Q">>]
JwkB == [kty |-> "RSA", kid |-> "k2", n |-> <<"C","t","U">>, e |-> <<"E","Q">>]
\* An elliptic-curve entry and an RSA entry whose modulus does not decode,
\* both under the kid of key A.
JwkEC == [kty |-> "EC", kid |-> "abc123", n |-> << >>, e |-> << >>]
JwkBad == [kty |-> "RSA", kid |-> "abc123", n |-> <<"D","!","E">>, e |-> <<"E","Q">>]
\* An RSA entry under the kid of key B whose exponent does not decode.
JwkBadK2 == [kty |-> "RSA", kid |-> "k2", n |-> <<"C","t","U">>, e |-> <<"E">>]

Kids == {"abc123", "k2"}

\* The documents the provider may publish (JWKSet.Keys).
Documents ==
  { << JwkA, JwkBadK2 >>,
    << JwkEC, JwkB >>,
    << JwkBad, JwkA, JwkB >> }

RECURSIVE FindKeyStopsAtBadEntry(_, _)
\* FindKey that gives up at the first entry with the kid that is not an RSA
\* key it can reconstruct.
FindKeyStopsAtBadEntry(keys, kid) ==
  IF keys = << >> THEN NoKey
  ELSE LET k == Head(keys)
       IN IF k.kid = kid
          THEN IF k.kty = "RSA" /\ parseRSAPublicKey(k).ok
               THEN parseRSAPublicKey(k).key ELSE NoKey
          ELSE FindKeyStopsAtBadEntry(Tail(keys), kid)

RECURSIVE FindKey(_, _)
\* The loop over jwkSet.Keys: the first entry with the kid and kty RSA that
\* parseRSAPublicKey reconstructs, or NoKey.
FindKey(keys, kid) ==
  IF keys = << >> THEN NoKey
  ELSE LET k == Head(keys)
       IN IF k.kid = kid /\ k.kty = "RSA" /\ parseRSAPublicKey(k).ok
          THEN parseRSAPublicKey(k).key
          ELSE FindKey(Tail(keys), kid)

\* ----------------------------------------------------------------- tokens
\* A time that is not there (a nil *jwt.NumericDate).
NoTime == 0 - 1
\* A header without a string "kid" entry.
NoKid == "<no kid>"

Algs == {"RS256", "HS256", "none"}
\* The algorithms whose method is a *jwt.SigningMethodRSA.
RSAMethods == {"RS256", "RS384", "RS512"}
Subjects == {"user-42", "user-7"}
ExpValues == {NoTime, 1, MaxTime + 1}
NbfValues == {NoTime, 1}

\* The issuer of the realm NewJWTMiddleware is given (keycloakURL and realm)
\* and the issuer of some other realm.
RealmIssuer == "https://keycloak/realms/collabhub"
OtherIssuer == "https://elsewhere/realms/other"

\* The claims of a subject besides the registered ones.
Profile(sub) ==
  IF sub = "user-42"
  THEN [preferred_username |-> "alice", email |-> "alice@example.org",
        name |-> "Alice", roles |-> {"user", "admin"}]
  ELSE [preferred_username |-> "bob", email |-> "bob@example.org",
        name |-> "Bob", roles |-> {"user"}]

\* What a request carries: the Authorization header ("absent", "basic" for a
\* header without the Bearer prefix, "bearer"), and for a bearer token its
\* number of segments, header fields, signing pair and claims.
Bearer(segs, alg, kid, signer, exp, nbf, sub) ==
  [hdr |-> "bearer", segs |-> segs, alg |-> alg, kid |-> kid,
   signer |-> signer, exp |-> exp, nbf |-> nbf, sub |-> sub,
   iss |-> RealmIssuer]

\* The token t as another realm's tokens name their issuer.
IssuedElsewhere(t) == [t EXCEPT !.iss = OtherIssuer]

NoBearer(h) ==
  [hdr |-> h, segs |-> 0, alg |-> "none", kid |-> NoKid,
   signer |-> NoKey, exp |-> NoTime, nbf |-> NoTime, sub |-> "user-7",
   iss |-> RealmIssuer]

\* The requests of the single-request specification: every header shape,
\* algorithm, kid, signer and claim content.
Tokens ==
  { NoBearer("absent"), NoBearer("basic"),
    Bearer(2, "RS256", "abc123", KeyA, NoTime, NoTime, "user-42") }
  \cup { Bearer(3, "RS256", kid, s, exp, nbf, sub) :
           kid \in Kids \cup {NoKid}, s \in {KeyA, KeyB},
           exp \in ExpValues, nbf \in NbfValues, sub \in Subjects }
  \cup { Bearer(3, alg, kid, KeyA, exp, nbf, sub) :
           alg \in Algs \ {"RS256"}, kid \in Kids \cup {NoKid},
           exp \in ExpValues, nbf \in NbfValues, sub \in Subjects }
  \cup { IssuedElsewhere(Bearer(3, "RS256", kid, s, exp, NoTime, "user-42")) :
           kid \in Kids, s \in {KeyA, KeyB}, exp \in ExpValues }

\* The requests of the concurrent specification: well-formed, unexpired
\* tokens that differ in their kid.
PlainTokens ==
  { Bearer(3, "RS256", "abc123", KeyA, MaxTime + 1, NoTime, "user-42"),
    Bearer(3, "RS256", "k2", KeyB, MaxTime + 1, NoTime, "user-7") }

\* ------------------------------------------------------------------ state
VARIABLES
  publicKeys,   \* j.publicKeys: kid -> key, NoKey where the map has no entry
  lastUpdate,   \* j.lastUpdate
  writer,       \* j.mutex: the caller that has announced or holds Lock, else 0
  readers,      \* j.mutex: the callers that hold RLock
  now,          \* the clock
  jwks,         \* the document the provider publishes
  pc,           \* where each caller's request is
  tok,          \* the request each caller serves
  key,          \* the key getPublicKey returned to the caller
  res,          \* the gin context of the request: status, abort, identity
  fetches,      \* history: JWKS requests the caller's current call issued
  outcome,      \* history: how the call's JWKS request ended; "none" without
                \* a request, "pending" while it is in flight
  lastMiss,     \* history: the kid and the time of the latest successful
                \* fetch that did not hold the requested kid, while less
                \* than an hour old, and the callers that were asking for
                \* that kid when it returned
  cancelled,    \* the request's context (c.Request.Context()) is cancelled:
                \* its client has gone away
  fetchedAt,    \* history: for each kid the time of the latest fetch that
                \* stored its key, while less than an hour old
  adminToken,   \* k.adminToken, NoToken for the empty string
  tokenExpiry,  \* k.tokenExpiry
  kwriter,      \* k.mutex: the caller that has announced or holds Lock, else 0
  kreaders,     \* k.mutex: the callers that hold RLock
  apc,          \* where each caller's getAdminToken call is
  ares,         \* what the call returned, and history: whether it sent a
                \* token request and how many had been sent when it made
                \* its first test
  posts,        \* history: the token requests sent so far
  lastPost      \* history: how the latest token request ended

vars ==
  << publicKeys, lastUpdate, writer, readers, now, jwks, pc, tok, key, res,
     fetches, outcome, lastMiss, cancelled, fetchedAt,
     adminToken, tokenExpiry, kwriter, kreaders, apc, ares, posts, lastPost >>

\* The state of the KeycloakService.
adminVars ==
  << adminToken, tokenExpiry, kwriter, kreaders, apc, ares, posts, lastPost >>

\* j.lastUpdate as NewJWTMiddleware leaves it: the zero time, more than an
\* hour before any clock value.
ZeroTime == 0 - Hour

NoCtx == [set |-> FALSE, user_id |-> "", username |-> "", email |-> "",
          name |-> "", roles |-> {}]

\* A gin context nothing was written to.
Fresh == [http |-> 0, err |-> {}, aborted |-> FALSE, next |-> FALSE,
          ctx |-> NoCtx]

NoMiss == [kid |-> NoKid, at |-> NoTime, waiters |-> {}]

\* The empty string as an access token.
NoToken == 0

\* getAdminToken has not returned.
NoResult == [token |-> NoToken, err |-> "", posted |-> FALSE, seen |-> 0]

NoPost == [ok |-> FALSE, token |-> NoToken, expires_in |-> 0, at |-> NoTime]

\* The KeycloakService as NewKeycloakService leaves it: no token, the zero
\* time as expiry, the mutex free.
InitAdmin ==
  /\ adminToken = NoToken
  /\ tokenExpiry = ZeroTime
  /\ kwriter = 0
  /\ kreaders = {}
  /\ apc = [p \in Callers |-> "idle"]
  /\ ares = [p \in Callers |-> NoResult]
  /\ posts = 0
  /\ lastPost = NoPost

Init ==
  /\ publicKeys = [k \in Kids |-> NoKey]
  /\ lastUpdate = ZeroTime
  /\ writer = 0
  /\ readers = {}
  /\ now = 0
  /\ jwks \in Documents
  /\ pc = [p \in Callers |-> "idle"]
  /\ tok = [p \in Callers |-> NoBearer("absent")]
  /\ key = [p \in Callers |-> NoKey]
  /\ res = [p \in Callers |-> Fresh]
  /\ fetches = [p \in Callers |-> 0]
  /\ outcome = [p \in Callers |-> "none"]
  /\ lastMiss = NoMiss
  /\ cancelled = [p \in Callers |-> FALSE]
  /\ fetchedAt = [k \in Kids |-> NoTime]
  /\ InitAdmin

\* ------------------------------------------------------- ValidateJWT parts
\* Reject that writes the 401 answer and leaves out c.Abort(): the chain
\* goes on to the route handler.
RejectWithoutAbort(errs) ==
  [http |-> 401, err |-> errs, aborted |-> FALSE, next |-> TRUE,
   ctx |-> NoCtx]

\* The context after c.JSON(http.StatusUnauthorized, ...) and c.Abort().
Reject(errs) ==
  [http |-> 401, err |-> errs, aborted |-> TRUE, next |-> FALSE,
   ctx |-> NoCtx]

\* The context after the five c.Set calls and c.Next().
Accept(t) ==
  [http |-> 0, err |-> {}, aborted |-> FALSE, next |-> TRUE,
   ctx |-> [set |-> TRUE, user_id |-> t.sub,
            username |-> Profile(t.sub).preferred_username,
            email |-> Profile(t.sub).email,
            name |-> Profile(t.sub).name,
            roles |-> Profile(t.sub).roles]]

\* PreKeyError of a parser that does not count the segments.
PreKeyErrorSegmentsUnchecked(t) ==
  IF t.hdr = "absent" THEN "authorization header required"
  ELSE IF t.hdr # "bearer" THEN "bearer token required"
  ELSE IF t.alg \notin RSAMethods THEN "unexpected signing method"
  ELSE IF t.kid = NoKid THEN "kid header missing"
  ELSE ""

\* PreKeyError without the test of the signing method's type.
PreKeyErrorAnyMethod(t) ==
  IF t.hdr = "absent" THEN "authorization header required"
  ELSE IF t.hdr # "bearer" THEN "bearer token required"
  ELSE IF t.segs # 3 THEN "token is malformed"
  ELSE IF t.kid = NoKid THEN "kid header missing"
  ELSE ""

\* What rejects a request before any key is looked up: the two header
\* tests, the parser's segment count, and the key function's tests of the
\* signing method and of the kid header.  "" when nothing does.
PreKeyError(t) ==
  IF t.hdr = "absent" THEN "authorization header required"
  ELSE IF t.hdr # "bearer" THEN "bearer token required"
  ELSE IF t.segs # 3 THEN "token is malformed"
  ELSE IF t.alg \notin RSAMethods THEN "unexpected signing method"
  ELSE IF t.kid = NoKid THEN "kid header missing"
  ELSE ""

\* The header tests of AuthMiddleware.RequireAuth, the guard of the
\* server's protected group: the context they leave, Fresh when the request
\* goes on to the validation of its token.
RequireAuthHeader(t) ==
  IF t.hdr = "absent" THEN Reject({"authorization header required"})
  ELSE IF t.hdr # "bearer" THEN Reject({"bearer token required"})
  ELSE Fresh

\* The header tests of middleware.AuthMiddleware, the guard of the protected
\* group of the integration test's router.
AuthMiddlewareHeader(t) ==
  IF t.hdr = "absent" THEN Reject({"authorization header is required"})
  ELSE IF t.hdr # "bearer"
  THEN Reject({"authorization header must start with Bearer"})
  ELSE Fresh

\* VerifySignature that takes any key for the signer's.
VerifySignatureAnyKey(t, k) == k # NoKey

\* The signing method's Verify with the key the key function returned.
VerifySignature(t, k) == k # NoKey /\ t.signer = k

\* ClaimsErrors that never looks at nbf.
ClaimsErrorsNoNbf(t, at) ==
  IF t.exp # NoTime /\ ~(at < t.exp) THEN {"token is expired"} ELSE {}

\* ClaimsErrors that also refuses a token at the very instant of its nbf.
ClaimsErrorsStrictNbf(t, at) ==
  (IF t.exp # NoTime /\ ~(at < t.exp) THEN {"token is expired"} ELSE {})
  \cup (IF t.nbf # NoTime /\ at <= t.nbf THEN {"token is not valid yet"} ELSE {})

\* The parser's claims validation at time `at`: exp, when present, must be
\* after `at`; nbf, when present, must not be after `at`.  Every failed
\* test is reported.
ClaimsErrors(t, at) ==
  (IF t.exp # NoTime /\ ~(at < t.exp) THEN {"token is expired"} ELSE {})
  \cup (IF t.nbf # NoTime /\ at < t.nbf THEN {"token is not valid yet"} ELSE {})

\* The handler's own test: claims.ExpiresAt != nil and before time.Now().
ExpiredCheck(t, at) == t.exp # NoTime /\ t.exp < at

\* Outcome that sets the identity without verifying the signature.
OutcomeSkipsSignature(t, k, at) ==
  IF ClaimsErrors(t, at) # {} THEN Reject(ClaimsErrors(t, at))
  ELSE IF ExpiredCheck(t, at) THEN Reject({"Token expired"})
  ELSE Accept(t)

\* Outcome that never looks at the expiry.
OutcomeNoExpiry(t, k, at) ==
  IF ~VerifySignature(t, k) THEN Reject({"signature is invalid"})
  ELSE IF ClaimsErrors(t, at) \ {"token is expired"} # {}
  THEN Reject(ClaimsErrors(t, at) \ {"token is expired"})
  ELSE Accept(t)

\* Outcome that validates the claims before it verifies the signature.
OutcomeClaimsFirst(t, k, at) ==
  IF ClaimsErrors(t, at) # {} THEN Reject(ClaimsErrors(t, at))
  ELSE IF ~VerifySignature(t, k) THEN Reject({"signature is invalid"})
  ELSE IF ExpiredCheck(t, at) THEN Reject({"Token expired"})
  ELSE Accept(t)

\* The handler from the return of the key function on: signature, claims,
\* the expiry test, then identity and c.Next().
Outcome(t, k, at) ==
  IF ~VerifySignature(t, k) THEN Reject({"signature is invalid"})
  ELSE IF ClaimsErrors(t, at) # {} THEN Reject(ClaimsErrors(t, at))
  ELSE IF ExpiredCheck(t, at) THEN Reject({"Token expired"})
  ELSE Accept(t)

\* ------------------------------------------------------ getPublicKey parts
\* CacheHit that still serves a key exactly one hour after the refresh.
CacheHitInclusive(kid) == publicKeys[kid] # NoKey /\ now - lastUpdate <= Hour

\* The test made under the read lock and again under the write lock.
CacheHit(kid) == publicKeys[kid] # NoKey /\ now - lastUpdate < Hour

\* How a JWKS request can end.
FetchOutcomes == {"ok", "network error", "status", "bad json"}

\* FetchError that falls through to the search of an empty document.
FetchErrorNotFound(o) == "public key not found"

\* The error getPublicKey returns for a request that did not give a
\* document.
FetchError(o) ==
  CASE o = "network error" -> "failed to fetch JWKs"
    [] o = "status" -> "failed to fetch JWKs: status"
    [] o = "bad json" -> "failed to decode JWKs"

\* The callers inside getPublicKey that have not passed the lock yet.
Asking(kid) ==
  { q \in Callers : pc[q] \in {"rlock", "rcheck", "lock", "lockwait"}
                     /\ tok[q].kid = kid }

\* CanAnnounce of a lock that does not keep writers apart.
CanAnnounceAlways == TRUE

\* Lock lets one writer at a time announce itself.
CanAnnounce == writer = 0

\* CanRLock of a plain mutex: one reader at a time.
CanRLockExclusive == writer = 0 /\ readers = {}

\* RLock is granted unless a writer has announced itself or holds the lock.
CanRLock == writer = 0

\* CanLock of a lock that does not wait for the readers inside to leave.
CanLockIgnoringReaders(p) == writer = p

\* Lock is granted to the announced writer once no reader is left.
CanLock(p) == writer = p /\ readers = {}

\* ---------------------------------------------------------------- actions
\* A request arrives: header tests, unverified parse and the first tests of
\* the key function, up to the call of getPublicKey.
Begin(p, t) ==
  /\ pc[p] = "idle"
  /\ tok' = [tok EXCEPT ![p] = t]
  /\ IF PreKeyError(t) # ""
     THEN /\ res' = [res EXCEPT ![p] = Reject({PreKeyError(t)})]
          /\ pc' = [pc EXCEPT ![p] = "done"]
     ELSE /\ res' = [res EXCEPT ![p] = Fresh]
          /\ pc' = [pc EXCEPT ![p] = "rlock"]
  /\ UNCHANGED << publicKeys, lastUpdate, writer, readers, now, jwks, key,
                  fetches, outcome, lastMiss, cancelled, fetchedAt >>
  /\ UNCHANGED adminVars

\* j.mutex.RLock()
RLock(p) ==
  /\ pc[p] = "rlock"
  /\ CanRLock
  /\ readers' = readers \cup {p}
  /\ pc' = [pc EXCEPT ![p] = "rcheck"]
  /\ UNCHANGED << publicKeys, lastUpdate, writer, now, jwks, tok, key, res,
                  fetches, outcome, lastMiss, cancelled, fetchedAt >>
  /\ UNCHANGED adminVars

\* ReadCheck that keeps the read lock when it goes for the write lock.
ReadCheckKeepsRLock(p) ==
  /\ pc[p] = "rcheck"
  /\ IF CacheHit(tok[p].kid)
     THEN /\ key' = [key EXCEPT ![p] = publicKeys[tok[p].kid]]
          /\ readers' = readers \ {p}
          /\ pc' = [pc EXCEPT ![p] = "verify"]
     ELSE /\ key' = key
          /\ readers' = readers
          /\ pc' = [pc EXCEPT ![p] = "lock"]
  /\ UNCHANGED << publicKeys, lastUpdate, writer, now, jwks, tok, res,
                  fetches, outcome, lastMiss, cancelled, fetchedAt >>
  /\ UNCHANGED adminVars

\* The test under the read lock and j.mutex.RUnlock() on either branch.
ReadCheck(p) ==
  /\ pc[p] = "rcheck"
  /\ readers' = readers \ {p}
  /\ IF CacheHit(tok[p].kid)
     THEN /\ key' = [key EXCEPT ![p] = publicKeys[tok[p].kid]]
          /\ pc' = [pc EXCEPT ![p] = "verify"]
     ELSE /\ key' = key
          /\ pc' = [pc EXCEPT ![p] = "lock"]
  /\ UNCHANGED << publicKeys, lastUpdate, writer, now, jwks, tok, res,
                  fetches, outcome, lastMiss, cancelled, fetchedAt >>
  /\ UNCHANGED adminVars

\* j.mutex.Lock(), first half: the writer announces itself; from here on
\* new readers wait.
Lock(p) ==
  /\ pc[p] = "lock"
  /\ CanAnnounce
  /\ writer' = p
  /\ pc' = [pc EXCEPT ![p] = "lockwait"]
  /\ UNCHANGED << publicKeys, lastUpdate, readers, now, jwks, tok, key, res,
                  fetches, outcome, lastMiss, cancelled, fetchedAt >>
  /\ UNCHANGED adminVars

\* j.mutex.Lock(), second half: the readers have left.
LockGranted(p) ==
  /\ pc[p] = "lockwait"
  /\ CanLock(p)
  /\ pc' = [pc EXCEPT ![p] = "wcheck"]
  /\ UNCHANGED << publicKeys, lastUpdate, writer, readers, now, jwks, tok,
                  key, res, fetches, outcome, lastMiss, cancelled, fetchedAt >>
  /\ UNCHANGED adminVars

\* DoubleCheck without the second test: the caller that holds the write
\* lock sends the JWKS request whatever the cache holds by now.
DoubleCheckAlwaysFetches(p) ==
  /\ pc[p] = "wcheck"
  /\ pc' = [pc EXCEPT ![p] = "fetching"]
  /\ fetches' = [fetches EXCEPT ![p] = @ + 1]
  /\ outcome' = [outcome EXCEPT ![p] = "pending"]
  /\ UNCHANGED << publicKeys, lastUpdate, writer, readers, now, jwks, tok, key,
                  res, lastMiss, cancelled, fetchedAt >>
  /\ UNCHANGED adminVars

\* The second test, under the write lock: a hit returns (the deferred
\* Unlock runs), a miss sends the JWKS request.
DoubleCheck(p) ==
  /\ pc[p] = "wcheck"
  /\ IF CacheHit(tok[p].kid)
     THEN /\ key' = [key EXCEPT ![p] = publicKeys[tok[p].kid]]
          /\ writer' = 0
          /\ pc' = [pc EXCEPT ![p] = "verify"]
          /\ UNCHANGED << fetches, outcome >>
     ELSE /\ key' = key
          /\ writer' = writer
          /\ pc' = [pc EXCEPT ![p] = "fetching"]
          /\ fetches' = [fetches EXCEPT ![p] = @ + 1]
          /\ outcome' = [outcome EXCEPT ![p] = "pending"]
  /\ UNCHANGED << publicKeys, lastUpdate, readers, now, jwks, tok, res,
                  lastMiss, cancelled, fetchedAt >>
  /\ UNCHANGED adminVars

\* ClientGet made with the context of the caller's request: it fails once
\* that context is cancelled.
ClientGetWithRequestContext(p, o) ==
  IF cancelled[p] THEN "network error" ELSE o

\* client.Get(jwksURL) of a client built in place: the request carries the
\* background context, so what it returns is what the provider and the
\* network make of it, whatever became of the caller's own request.
ClientGet(p, o) == o

\* FetchReturn that records the time of a fetch whose document did not hold
\* the kid.
FetchReturnStampsMiss(p, o) ==
  /\ pc[p] = "fetching"
  /\ writer' = 0
  /\ outcome' = [outcome EXCEPT ![p] = o]
  /\ IF o # "ok"
     THEN /\ res' = [res EXCEPT ![p] = Reject({FetchError(o)})]
          /\ pc' = [pc EXCEPT ![p] = "done"]
          /\ UNCHANGED << publicKeys, lastUpdate, fetchedAt, key, lastMiss >>
     ELSE IF FindKey(jwks, tok[p].kid) # NoKey
     THEN /\ publicKeys' = [publicKeys EXCEPT ![tok[p].kid] = FindKey(jwks, tok[p].kid)]
          /\ lastUpdate' = now
          /\ fetchedAt' = [fetchedAt EXCEPT ![tok[p].kid] = now]
          /\ key' = [key EXCEPT ![p] = FindKey(jwks, tok[p].kid)]
          /\ pc' = [pc EXCEPT ![p] = "verify"]
          /\ UNCHANGED << res, lastMiss >>
     ELSE /\ res' = [res EXCEPT ![p] = Reject({"public key not found"})]
          /\ pc' = [pc EXCEPT ![p] = "done"]
          /\ lastUpdate' = now
          /\ lastMiss' = [kid |-> tok[p].kid, at |-> now,
                          waiters |-> Asking(tok[p].kid)]
          /\ UNCHANGED << publicKeys, fetchedAt, key >>
  /\ UNCHANGED << readers, now, jwks, tok, fetches, cancelled >>
  /\ UNCHANGED adminVars

\* FetchReturn that falls back on the key in the map, however old, when the
\* JWKS request gave no document.
FetchReturnStaleFallback(p, o) ==
  /\ pc[p] = "fetching"
  /\ writer' = 0
  /\ outcome' = [outcome EXCEPT ![p] = o]
  /\ IF o # "ok" /\ publicKeys[tok[p].kid] # NoKey
     THEN /\ key' = [key EXCEPT ![p] = publicKeys[tok[p].kid]]
          /\ pc' = [pc EXCEPT ![p] = "verify"]
          /\ UNCHANGED << publicKeys, lastUpdate, fetchedAt, res, lastMiss >>
     ELSE IF o # "ok"
     THEN /\ res' = [res EXCEPT ![p] = Reject({FetchError(o)})]
          /\ pc' = [pc EXCEPT ![p] = "done"]
          /\ UNCHANGED << publicKeys, lastUpdate, fetchedAt, key, lastMiss >>
     ELSE IF FindKey(jwks, tok[p].kid) # NoKey
     THEN /\ publicKeys' = [publicKeys EXCEPT ![tok[p].kid] = FindKey(jwks, tok[p].kid)]
          /\ lastUpdate' = now
          /\ fetchedAt' = [fetchedAt EXCEPT ![tok[p].kid] = now]
          /\ key' = [key EXCEPT ![p] = FindKey(jwks, tok[p].kid)]
          /\ pc' = [pc EXCEPT ![p] = "verify"]
          /\ UNCHANGED << res, lastMiss >>
     ELSE /\ res' = [res EXCEPT ![p] = Reject({"public key not found"})]
          /\ pc' = [pc EXCEPT ![p] = "done"]
          /\ lastMiss' = [kid |-> tok[p].kid, at |-> now,
                          waiters |-> Asking(tok[p].kid)]
          /\ UNCHANGED << publicKeys, lastUpdate, fetchedAt, key >>
  /\ UNCHANGED << readers, now, jwks, tok, fetches, cancelled >>
  /\ UNCHANGED adminVars

\* FetchReturn without the deferred Unlock on the paths that return an
\* error.
FetchReturnKeepsLock(p, o) ==
  /\ pc[p] = "fetching"
  /\ outcome' = [outcome EXCEPT ![p] = o]
  /\ IF o # "ok"
     THEN /\ res' = [res EXCEPT ![p] = Reject({FetchError(o)})]
          /\ pc' = [pc EXCEPT ![p] = "done"]
          /\ UNCHANGED << publicKeys, lastUpdate, fetchedAt, key, lastMiss, writer >>
     ELSE IF FindKey(jwks, tok[p].kid) # NoKey
     THEN /\ publicKeys' = [publicKeys EXCEPT ![tok[p].kid] = FindKey(jwks, tok[p].kid)]
          /\ lastUpdate' = now
          /\ fetchedAt' = [fetchedAt EXCEPT ![tok[p].kid] = now]
          /\ key' = [key EXCEPT ![p] = FindKey(jwks, tok[p].kid)]
          /\ pc' = [pc EXCEPT ![p] = "verify"]
          /\ writer' = 0
          /\ UNCHANGED << res, lastMiss >>
     ELSE /\ res' = [res EXCEPT ![p] = Reject({"public key not found"})]
          /\ pc' = [pc EXCEPT ![p] = "done"]
          /\ UNCHANGED << publicKeys, lastUpdate, fetchedAt, key, lastMiss, writer >>
  /\ UNCHANGED << readers, now, jwks, tok, fetches, cancelled >>
  /\ UNCHANGED adminVars

\* client.Get returns: an error, a status other than 200 or an undecodable
\* body end the call with an error; a document is searched for the kid, a
\* found key is stored with the time, and the deferred Unlock runs on every
\* path.  An error of getPublicKey is the key function's error and the
\* handler answers 401.
FetchReturn(p, o) ==
  /\ pc[p] = "fetching"
  /\ writer' = 0
  /\ outcome' = [outcome EXCEPT ![p] = ClientGet(p, o)]
  /\ IF ClientGet(p, o) # "ok"
     THEN /\ res' = [res EXCEPT ![p] = Reject({FetchError(ClientGet(p, o))})]
          /\ pc' = [pc EXCEPT ![p] = "done"]
          /\ UNCHANGED << publicKeys, lastUpdate, fetchedAt, key, lastMiss >>
     ELSE IF FindKey(jwks, tok[p].kid) # NoKey
     THEN /\ publicKeys' = [publicKeys EXCEPT ![tok[p].kid] = FindKey(jwks, tok[p].kid)]
          /\ lastUpdate' = now
          /\ fetchedAt' = [fetchedAt EXCEPT ![tok[p].kid] = now]
          /\ key' = [key EXCEPT ![p] = FindKey(jwks, tok[p].kid)]
          /\ pc' = [pc EXCEPT ![p] = "verify"]
          /\ UNCHANGED << res, lastMiss >>
     ELSE /\ res' = [res EXCEPT ![p] = Reject({"public key not found"})]
          /\ pc' = [pc EXCEPT ![p] = "done"]
          /\ lastMiss' = [kid |-> tok[p].kid, at |-> now,
                          waiters |-> Asking(tok[p].kid)]
          /\ UNCHANGED << publicKeys, lastUpdate, fetchedAt, key >>
  /\ UNCHANGED << readers, now, jwks, tok, fetches, cancelled >>
  /\ UNCHANGED adminVars

\* The rest of the handler once the key function has returned a key.
Finish(p) ==
  /\ pc[p] = "verify"
  /\ res' = [res EXCEPT ![p] = Outcome(tok[p], key[p], now)]
  /\ pc' = [pc EXCEPT ![p] = "done"]
  /\ UNCHANGED << publicKeys, lastUpdate, writer, readers, now, jwks, tok,
                  key, fetches, outcome, lastMiss, cancelled, fetchedAt >>
  /\ UNCHANGED adminVars

\* The answered request leaves; its caller is free for the next one.
Reset(p) ==
  /\ pc[p] = "done"
  /\ pc' = [pc EXCEPT ![p] = "idle"]
  /\ tok' = [tok EXCEPT ![p] = NoBearer("absent")]
  /\ key' = [key EXCEPT ![p] = NoKey]
  /\ res' = [res EXCEPT ![p] = Fresh]
  /\ fetches' = [fetches EXCEPT ![p] = 0]
  /\ outcome' = [outcome EXCEPT ![p] = "none"]
  /\ lastMiss' = [lastMiss EXCEPT !.waiters = @ \ {p}]
  /\ cancelled' = [cancelled EXCEPT ![p] = FALSE]
  /\ UNCHANGED << publicKeys, lastUpdate, writer, readers, now, jwks,
                  fetchedAt >>
  /\ UNCHANGED adminVars

\* The client of a request under way goes away and the request's context is
\* cancelled; the handler reads that context nowhere.
Cancel(p) ==
  /\ pc[p] \notin {"idle", "done"}
  /\ ~cancelled[p]
  /\ cancelled' = [cancelled EXCEPT ![p] = TRUE]
  /\ UNCHANGED << publicKeys, lastUpdate, writer, readers, now, jwks, pc, tok,
                  key, res, fetches, outcome, lastMiss, fetchedAt >>
  /\ UNCHANGED adminVars

\* An answered request is looked at in the instant it is answered: the
\* clock and the provider move on once it has left.
Settled == \A p \in Callers : pc[p] # "done"

\* Time passes.
Tick ==
  /\ Settled
  /\ now < MaxTime
  /\ now' = now + 1
  /\ lastMiss' = IF lastMiss # NoMiss /\ now' - lastMiss.at >= Hour
                 THEN NoMiss ELSE lastMiss
  /\ fetchedAt' = [k \in Kids |->
                     IF fetchedAt[k] # NoTime /\ now' - fetchedAt[k] >= Hour
                     THEN NoTime ELSE fetchedAt[k]]
  /\ UNCHANGED << publicKeys, lastUpdate, writer, readers, jwks, pc, tok, key,
                  res, fetches, outcome, cancelled >>
  /\ UNCHANGED adminVars

\* The provider publishes another document.
Rotate(d) ==
  /\ Settled
  /\ d # jwks
  /\ jwks' = d
  /\ UNCHANGED << publicKeys, lastUpdate, writer, readers, now, pc, tok, key,
                  res, fetches, outcome, lastMiss, cancelled, fetchedAt >>
  /\ UNCHANGED adminVars

\* The steps of caller p's request once it has arrived; O holds the ways
\* its JWKS request may end.
Step(p, O) ==
  \/ RLock(p)
  \/ ReadCheck(p)
  \/ Lock(p)
  \/ LockGranted(p)
  \/ DoubleCheck(p)
  \/ \E o \in O : FetchReturn(p, o)
  \/ Finish(p)
  \/ Reset(p)

Environment ==
  \/ Tick
  \/ \E d \in Documents : Rotate(d)

\* Concurrent requests with well-formed tokens against a provider that
\* keeps publishing one document and either answers with it or cannot be
\* reached.
Next ==
  \/ \E p \in Callers : \E t \in PlainTokens : Begin(p, t)
  \/ \E p \in Callers : Step(p, {"ok", "network error"})
  \/ Tick

Spec == Init /\ [][Next]_vars

\* The scheduling of the concurrent requests: a goroutine that can run does
\* run; a JWKS request ends, with an answer or at the client's timeout; and
\* the mutex hands itself to a caller that keeps asking (sync.RWMutex wakes
\* the readers a writer held up when it unlocks, and sync.Mutex under it
\* hands over to a starved waiter).
Fairness ==
  \A p \in Callers :
    /\ WF_vars(ReadCheck(p) \/ LockGranted(p) \/ DoubleCheck(p) \/ Finish(p)
                 \/ \E o \in {"ok", "network error"} : FetchReturn(p, o))
    /\ SF_vars(RLock(p) \/ Lock(p))

\* Concurrent requests for one kid, with the clock standing still: what
\* the callers contend for is the mutex and the one JWKS request.
NextFair ==
  \/ \E p \in Callers :
       Begin(p, Bearer(3, "RS256", "abc123", KeyA, MaxTime + 1, NoTime, "user-42"))
  \/ \E p \in Callers : Step(p, {"ok", "network error"})

SpecFair == Init /\ [][NextFair]_vars /\ Fairness

\* The provider publishes one key of the round trip, encoded, under kid
\* abc123.
InitKeys ==
  /\ publicKeys = [k \in Kids |-> NoKey]
  /\ lastUpdate = ZeroTime
  /\ writer = 0
  /\ readers = {}
  /\ now = 0
  /\ jwks \in { << pub.jwk >> : pub \in Published }
  /\ pc = [p \in Callers |-> "idle"]
  /\ tok = [p \in Callers |-> NoBearer("absent")]
  /\ key = [p \in Callers |-> NoKey]
  /\ res = [p \in Callers |-> Fresh]
  /\ fetches = [p \in Callers |-> 0]
  /\ outcome = [p \in Callers |-> "none"]
  /\ lastMiss = NoMiss
  /\ cancelled = [p \in Callers |-> FALSE]
  /\ fetchedAt = [k \in Kids |-> NoTime]
  /\ InitAdmin

\* Requests with tokens signed by the pair whose public key is published, or
\* by key B, one at a time, against a provider that answers.
NextKeys ==
  \/ \E pub \in Published :
       /\ jwks = << pub.jwk >>
       /\ \E s \in {pub.key, KeyB} :
            Begin(1, Bearer(3, "RS256", "abc123", s, NoTime, NoTime, "user-42"))
  \/ Step(1, {"ok"})

SpecKeys == InitKeys /\ [][NextKeys]_vars

\* One request at a time against a provider that always answers with its
\* document, while the clients of the requests may go away.
NextAnswering ==
  \/ \E t \in PlainTokens : Begin(1, t)
  \/ Step(1, {"ok"})
  \/ Cancel(1)
  \/ Environment

SpecAnswering == Init /\ [][NextAnswering]_vars

\* One request at a time, with every kind of token.
NextSingle ==
  \/ \E t \in Tokens : Begin(1, t)
  \/ Step(1, FetchOutcomes)
  \/ Environment

SpecSingle == Init /\ [][NextSingle]_vars

\* ------------------------------------------ KeycloakService.getAdminToken
\* The 30 seconds before its expiry in which a token is no longer handed
\* out.  The token service is a service of its own with a clock read of its
\* own; under SpecAdmin the unit of the clock is this margin.
Margin == 1

\* The lifetimes (expires_in) the token endpoint gives a token: none,
\* the margin, and one and two units above it.
Lifetimes == {0, Margin, Margin + 1, Margin + 2}

\* The token requests of one run: as many as there are callers.
MaxRequests == MaxCallers

\* What the token request may come back with: a transport error (the
\* caller's context cancelled, or the client's retries used up), a status
\* other than 200, a body that is not the JSON of a TokenResponse, or a
\* TokenResponse whose access_token may be the empty string.
TokenResponses ==
  [kind : {"error", "status", "parse"}, empty : {TRUE}, expires_in : {0}]
    \cup [kind : {"ok"}, empty : BOOLEAN, expires_in : Lifetimes]

\* The test getAdminToken makes twice: a token is stored and the clock is
\* before the expiry less 30 seconds.
AdminTokenUsable ==
  adminToken # NoToken /\ now < tokenExpiry - Margin

PostError(r) ==
  CASE r.kind = "error" -> "failed to get admin token"
    [] r.kind = "status" -> "failed to get admin token: status"
    [] r.kind = "parse" -> "failed to parse token response"
    [] OTHER -> ""

\* The calls of getAdminToken under way.
AdminCalls == { q \in Callers : apc[q] # "idle" }

\* A caller calls getAdminToken.
AdminBegin(p) ==
  /\ apc[p] = "idle"
  /\ posts + Cardinality(AdminCalls) < MaxRequests
  /\ apc' = [apc EXCEPT ![p] = "rlock"]
  /\ UNCHANGED << adminToken, tokenExpiry, kwriter, kreaders, ares, posts,
                  lastPost >>
  /\ UNCHANGED << publicKeys, lastUpdate, writer, readers, now, jwks, pc, tok,
                  key, res, fetches, outcome, lastMiss, cancelled, fetchedAt >>

\* k.mutex.RLock()
AdminRLock(p) ==
  /\ apc[p] = "rlock"
  /\ kwriter = 0
  /\ kreaders' = kreaders \cup {p}
  /\ apc' = [apc EXCEPT ![p] = "rcheck"]
  /\ UNCHANGED << adminToken, tokenExpiry, kwriter, ares, posts, lastPost >>
  /\ UNCHANGED << publicKeys, lastUpdate, writer, readers, now, jwks, pc, tok,
                  key, res, fetches, outcome, lastMiss, cancelled, fetchedAt >>

\* The test under the read lock and k.mutex.RUnlock() on either branch.
AdminReadCheck(p) ==
  /\ apc[p] = "rcheck"
  /\ kreaders' = kreaders \ {p}
  /\ IF AdminTokenUsable
     THEN /\ ares' = [ares EXCEPT ![p] = [token |-> adminToken, err |-> "",
                                          posted |-> FALSE, seen |-> posts]]
          /\ apc' = [apc EXCEPT ![p] = "done"]
     ELSE /\ ares' = [ares EXCEPT ![p].seen = posts]
          /\ apc' = [apc EXCEPT ![p] = "lock"]
  /\ UNCHANGED << adminToken, tokenExpiry, kwriter, posts, lastPost >>
  /\ UNCHANGED << publicKeys, lastUpdate, writer, readers, now, jwks, pc, tok,
                  key, res, fetches, outcome, lastMiss, cancelled, fetchedAt >>

\* k.mutex.Lock(), first half: the writer announces itself.
AdminLock(p) ==
  /\ apc[p] = "lock"
  /\ kwriter = 0
  /\ kwriter' = p
  /\ apc' = [apc EXCEPT ![p] = "lockwait"]
  /\ UNCHANGED << adminToken, tokenExpiry, kreaders, ares, posts, lastPost >>
  /\ UNCHANGED << publicKeys, lastUpdate, writer, readers, now, jwks, pc, tok,
                  key, res, fetches, outcome, lastMiss, cancelled, fetchedAt >>

\* k.mutex.Lock(), second half: the readers have left.
AdminLockGranted(p) ==
  /\ apc[p] = "lockwait"
  /\ kwriter = p /\ kreaders = {}
  /\ apc' = [apc EXCEPT ![p] = "wcheck"]
  /\ UNCHANGED << adminToken, tokenExpiry, kwriter, kreaders, ares, posts,
                  lastPost >>
  /\ UNCHANGED << publicKeys, lastUpdate, writer, readers, now, jwks, pc, tok,
                  key, res, fetches, outcome, lastMiss, cancelled, fetchedAt >>

\* AdminDoubleCheck without the second test: the caller that holds the
\* write lock sends the token request whatever is stored by now.
AdminDoubleCheckAlwaysPosts(p) ==
  /\ apc[p] = "wcheck"
  /\ posts' = posts + 1
  /\ ares' = [ares EXCEPT ![p].posted = TRUE]
  /\ apc' = [apc EXCEPT ![p] = "posting"]
  /\ UNCHANGED << adminToken, tokenExpiry, kwriter, kreaders, lastPost >>
  /\ UNCHANGED << publicKeys, lastUpdate, writer, readers, now, jwks, pc, tok,
                  key, res, fetches, outcome, lastMiss, cancelled, fetchedAt >>

\* The second test, under the write lock: with a usable token the call
\* returns it (the deferred Unlock runs), without one it sends the token
\* request.
AdminDoubleCheck(p) ==
  /\ apc[p] = "wcheck"
  /\ IF AdminTokenUsable
     THEN /\ ares' = [ares EXCEPT ![p].token = adminToken]
          /\ kwriter' = 0
          /\ apc' = [apc EXCEPT ![p] = "done"]
          /\ posts' = posts
     ELSE /\ posts' = posts + 1
          /\ ares' = [ares EXCEPT ![p].posted = TRUE]
          /\ kwriter' = kwriter
          /\ apc' = [apc EXCEPT ![p] = "posting"]
  /\ UNCHANGED << adminToken, tokenExpiry, kreaders, lastPost >>
  /\ UNCHANGED << publicKeys, lastUpdate, writer, readers, now, jwks, pc, tok,
                  key, res, fetches, outcome, lastMiss, cancelled, fetchedAt >>

\* The token request returns, still under the write lock, and the deferred
\* Unlock runs.  An error, a status other than 200 and an unreadable body
\* return before anything is stored; a TokenResponse is stored as it is,
\* its access_token (every request is given a token of its own, numbered
\* by the request) and the clock plus its expires_in, and the stored token
\* is returned.
AdminPostReturn(p, r) ==
  /\ apc[p] = "posting"
  /\ kwriter' = 0
  /\ apc' = [apc EXCEPT ![p] = "done"]
  /\ IF r.kind # "ok"
     THEN /\ ares' = [ares EXCEPT ![p].err = PostError(r)]
          /\ lastPost' = [ok |-> FALSE, token |-> NoToken, expires_in |-> 0,
                          at |-> now]
          /\ UNCHANGED << adminToken, tokenExpiry >>
     ELSE /\ adminToken' = IF r.empty THEN NoToken ELSE posts
          /\ tokenExpiry' = now + r.expires_in
          /\ ares' = [ares EXCEPT ![p].token = adminToken']
          /\ lastPost' = [ok |-> TRUE, token |-> adminToken',
                          expires_in |-> r.expires_in, at |-> now]
  /\ UNCHANGED << kreaders, posts >>
  /\ UNCHANGED << publicKeys, lastUpdate, writer, readers, now, jwks, pc, tok,
                  key, res, fetches, outcome, lastMiss, cancelled, fetchedAt >>

\* The caller has its answer and is free for the next call.
AdminReset(p) ==
  /\ apc[p] = "done"
  /\ apc' = [apc EXCEPT ![p] = "idle"]
  /\ ares' = [ares EXCEPT ![p] = NoResult]
  /\ UNCHANGED << adminToken, tokenExpiry, kwriter, kreaders, posts, lastPost >>
  /\ UNCHANGED << publicKeys, lastUpdate, writer, readers, now, jwks, pc, tok,
                  key, res, fetches, outcome, lastMiss, cancelled, fetchedAt >>

\* Concurrent calls of getAdminToken against a token endpoint that answers
\* in any of its ways, while time passes.
NextAdmin ==
  \/ \E p \in Callers : AdminBegin(p)
  \/ \E p \in Callers : AdminRLock(p)
  \/ \E p \in Callers : AdminReadCheck(p)
  \/ \E p \in Callers : AdminLock(p)
  \/ \E p \in Callers : AdminLockGranted(p)
  \/ \E p \in Callers : AdminDoubleCheck(p)
  \/ \E p \in Callers : \E r \in TokenResponses : AdminPostReturn(p, r)
  \/ \E p \in Callers : AdminReset(p)
  \/ Tick

\* The JWT middleware stands by, with one of the provider's documents.
InitAdminOnly == Init /\ jwks = << JwkA, JwkBadK2 >>

SpecAdmin == InitAdminOnly /\ [][NextAdmin]_vars

TypeOK ==
  /\ adminToken \in {NoToken} \cup 1..MaxRequests
  /\ tokenExpiry \in {ZeroTime} \cup 0..(MaxTime + Margin + 2)
  /\ kwriter \in {0} \cup Callers
  /\ kreaders \subseteq Callers
  /\ apc \in [Callers -> {"idle", "rlock", "rcheck", "lock", "lockwait",
                          "wcheck", "posting", "done"}]
  /\ posts \in 0..MaxRequests
  /\ lastPost.at \in {NoTime} \cup Times
  /\ publicKeys \in [Kids -> {NoKey, KeyA, KeyB}]
  /\ lastUpdate \in {ZeroTime} \cup Times
  /\ writer \in {0} \cup Callers
  /\ readers \subseteq Callers
  /\ now \in Times
  /\ jwks \in Documents
  /\ pc \in [Callers -> {"idle", "rlock", "rcheck", "lock", "lockwait",
                         "wcheck", "fetching", "verify", "done"}]
  /\ fetches \in [Callers -> 0..1]
  /\ outcome \in [Callers -> {"none", "pending"} \cup FetchOutcomes]
  /\ lastMiss \in {NoMiss} \cup [kid : Kids, at : Times, waiters : SUBSET Callers]
  /\ cancelled \in [Callers -> BOOLEAN]
  /\ fetchedAt \in [Kids -> {NoTime} \cup Times]

\* ----------------------------------------------------------------- claims
\* The stages of caller p's request, stated on the request itself.
HeaderOK(p) == tok[p].hdr = "bearer"
ParsedOK(p) ==
  tok[p].segs = 3 /\ tok[p].alg \in RSAMethods /\ tok[p].kid \in Kids
KeyResolved(p) == key[p] # NoKey
SignatureOK(p) == KeyResolved(p) /\ tok[p].signer = key[p]
ExpiryOK(p) == tok[p].exp = NoTime \/ now < tok[p].exp
NotBeforeOK(p) == tok[p].nbf = NoTime \/ tok[p].nbf <= now
AllStagesOK(p) ==
  /\ HeaderOK(p) /\ ParsedOK(p) /\ KeyResolved(p) /\ SignatureOK(p)
  /\ ExpiryOK(p) /\ NotBeforeOK(p)

Accepted(p) == pc[p] = "done" /\ res[p].next /\ res[p].ctx.set
Rejected(p) ==
  /\ pc[p] = "done" /\ res[p].http = 401 /\ res[p].aborted
  /\ ~res[p].next /\ res[p].ctx = NoCtx
Done(p) == pc[p] = "done"

\* The errors that say the provider could not be reached.
RemoteUnavailable == {"failed to fetch JWKs", "failed to fetch JWKs: status"}

\* C1: identity values are set and the next handler runs only for a request
\* whose header, key resolution, signature and claims all passed; a request
\* that failed any of them is aborted with 401 and has no identity value; a
\* request still under way has neither.
C1_FailClosed ==
  \A p \in Callers :
    /\ (res[p].ctx.set \/ res[p].next) =>
         Accepted(p) /\ AllStagesOK(p) /\ ~res[p].aborted /\ res[p].http # 401
    /\ (Done(p) /\ ~AllStagesOK(p)) => Rejected(p) /\ res[p].err # {}
    /\ ~Done(p) => res[p] = Fresh

C1_Witness ==
  \E p \in Callers : Accepted(p) /\ AllStagesOK(p) /\ fetches[p] = 1

\* A well-formed RS256 token that names a kid of the provider's current
\* document and is signed by that key.
SignedByPublishedKey(p) ==
  /\ HeaderOK(p) /\ ParsedOK(p) /\ tok[p].alg = "RS256"
  /\ FindKey(jwks, tok[p].kid) # NoKey
  /\ tok[p].signer = FindKey(jwks, tok[p].kid)

\* C2 as stated: a token signed by a published RSA key with exp strictly in
\* the future, whose key was cached or fetched, is accepted with user_id
\* equal to its sub.
C2_Original ==
  \A p \in Callers :
    (Done(p) /\ SignedByPublishedKey(p) /\ KeyResolved(p)
       /\ tok[p].exp # NoTime /\ now < tok[p].exp)
    => Accepted(p) /\ res[p].ctx.user_id = tok[p].sub

\* C2 amended: a token signed by a published RSA key, with exp strictly in
\* the future and nbf absent or not after the current time, whose key was
\* cached or fetched, is accepted with user_id equal to its sub.
C2_AcceptsValid ==
  \A p \in Callers :
    (Done(p) /\ SignedByPublishedKey(p) /\ KeyResolved(p)
       /\ tok[p].exp # NoTime /\ now < tok[p].exp /\ NotBeforeOK(p))
    => Accepted(p) /\ res[p].ctx.user_id = tok[p].sub

C2_Witness ==
  \E p \in Callers :
    /\ Accepted(p) /\ SignedByPublishedKey(p) /\ fetches[p] = 1
    /\ tok[p].kid = "abc123" /\ tok[p].exp = MaxTime + 1
    /\ tok[p].nbf = 1 /\ now = 1
    /\ res[p].ctx.user_id = "user-42"

\* C3: a three-segment bearer token with alg "none" is rejected with the
\* unexpected-signing-method error the moment it arrives, whatever its
\* claims, its kid and the cache hold; it never enters key lookup.
C3_AlgNoneRejected ==
  \A p \in Callers :
    (HeaderOK(p) /\ tok[p].segs = 3 /\ tok[p].alg = "none") =>
      /\ Rejected(p)
      /\ res[p].err = {"unexpected signing method"}
      /\ fetches[p] = 0 /\ key[p] = NoKey

C3_Witness ==
  \E p \in Callers :
    /\ Rejected(p) /\ tok[p].alg = "none" /\ tok[p].kid = "abc123"
    /\ ExpiryOK(p) /\ NotBeforeOK(p) /\ tok[p].exp # NoTime
    /\ CacheHit("abc123") /\ tok[p].signer = publicKeys["abc123"]

\* C4 as stated: once a fetch has returned a document without the kid, no
\* caller that was asking for that kid at that moment issues a fetch of its
\* own within the hour, and each of them ends with key-not-found.
C4_SingleFlightUnknownKid ==
  \A q \in lastMiss.waiters :
    /\ fetches[q] = 0
    /\ Done(q) => res[q].err = {"public key not found"}

\* C5 as stated: within an hour of a successful fetch that did not hold a
\* kid, no fetch is in flight for that kid and a lookup of it ends with
\* key-not-found.
C5_NoRefetchAfterMiss ==
  \A p \in Callers :
    (lastMiss # NoMiss /\ HeaderOK(p) /\ ParsedOK(p)
       /\ tok[p].kid = lastMiss.kid) =>
      /\ pc[p] # "fetching"
      /\ Done(p) => res[p].err = {"public key not found"}

\* C6: at most one JWKS request is in flight; the caller that tests the
\* cache a second time or waits for the provider is the one writer, and no
\* reader holds the lock meanwhile.
C6_OneFetchInFlight ==
  /\ Cardinality({p \in Callers : pc[p] = "fetching"}) <= 1
  /\ \A p \in Callers :
       pc[p] \in {"wcheck", "fetching"} => writer = p /\ readers = {}
  /\ \A p \in Callers : outcome[p] = "pending" <=> pc[p] = "fetching"

C6_Witness ==
  \E p, q \in Callers :
    /\ pc[p] = "fetching" /\ pc[q] = "lock"
    /\ tok[p].kid # tok[q].kid

\* C7: a token whose exp is before the current time is never accepted, and
\* when its signature verifies against the resolved key the rejection is
\* the expired error.
C7_ExpiredRejected ==
  \A p \in Callers :
    (Done(p) /\ HeaderOK(p) /\ tok[p].exp # NoTime /\ tok[p].exp < now) =>
      /\ Rejected(p)
      /\ SignatureOK(p) /\ ParsedOK(p) => "token is expired" \in res[p].err

C7_Witness ==
  \E p \in Callers :
    /\ Rejected(p) /\ SignatureOK(p) /\ tok[p].exp = 1 /\ now = 2
    /\ "token is expired" \in res[p].err

\* C8: a token that names a kid of the provider's document but was signed
\* by another pair is never accepted, whatever its claims, and once the key
\* is resolved the rejection is the invalid-signature error.
C8_WrongKeyRejected ==
  \A p \in Callers :
    (Done(p) /\ HeaderOK(p) /\ ParsedOK(p)
       /\ FindKey(jwks, tok[p].kid) # NoKey
       /\ tok[p].signer # FindKey(jwks, tok[p].kid)) =>
      /\ Rejected(p)
      /\ KeyResolved(p) => res[p].err = {"signature is invalid"}

C8_Witness ==
  \E p \in Callers :
    /\ Rejected(p) /\ tok[p].kid = "abc123" /\ tok[p].signer = KeyB
    /\ key[p] = KeyA /\ FindKey(jwks, "abc123") = KeyA
    /\ ExpiryOK(p) /\ NotBeforeOK(p) /\ tok[p].exp # NoTime
    /\ res[p].err = {"signature is invalid"}

\* C9: a call whose JWKS request failed (no connection, timeout, status
\* other than 200) ends with the fetch-failed error and never with
\* key-not-found.
C9_UnreachableIsRemoteError ==
  \A p \in Callers :
    outcome[p] \in {"network error", "status"} =>
      /\ Rejected(p)
      /\ res[p].err \subseteq RemoteUnavailable /\ res[p].err # {}
      /\ "public key not found" \notin res[p].err

C9_Witness ==
  \E p \in Callers :
    /\ Rejected(p) /\ outcome[p] = "network error"
    /\ publicKeys[tok[p].kid] = NoKey
    /\ res[p].err = {"failed to fetch JWKs"}

\* C10: a caller about to take the read lock is not held up by the readers
\* inside (only by a writer); a caller inside holds the shared lock and is
\* not the writer; and a caller that finds its kid cached within the hour
\* goes on to verification without asking for the write lock.
C10_Readers ==
  \A p \in Callers :
    /\ (pc[p] = "rlock" /\ writer = 0) => ENABLED RLock(p)
    /\ pc[p] = "rcheck" => p \in readers /\ writer # p

C10_WarmReadersShare ==
  /\ []C10_Readers
  /\ [][\A p \in Callers :
          (pc[p] = "rcheck" /\ CacheHit(tok[p].kid)) =>
             pc'[p] \in {"rcheck", "verify"}]_vars

C10_Witness ==
  \E p, q \in Callers :
    /\ p # q /\ pc[p] = "rcheck" /\ pc[q] = "rcheck"
    /\ CacheHit(tok[p].kid) /\ CacheHit(tok[q].kid)
    /\ {p, q} \subseteq readers /\ writer = 0

\* The position of a step of the request in the order the handler takes
\* them.
StageRank(s) ==
  CASE s = "idle" -> 0 [] s = "rlock" -> 1 [] s = "rcheck" -> 2
    [] s = "lock" -> 3 [] s = "lockwait" -> 4 [] s = "wcheck" -> 5
    [] s = "fetching" -> 6 [] s = "verify" -> 7 [] s = "done" -> 8

C11_Stages ==
  \A p \in Callers :
    /\ fetches[p] <= 1
    /\ Done(p) => (Accepted(p) \/ Rejected(p)) /\ ~(Accepted(p) /\ Rejected(p))
    /\ (Done(p) /\ ~(HeaderOK(p) /\ ParsedOK(p))) =>
         Rejected(p) /\ fetches[p] = 0 /\ key[p] = NoKey
    /\ (Done(p) /\ HeaderOK(p) /\ ParsedOK(p) /\ ~KeyResolved(p)) =>
         Rejected(p) /\ res[p].err \cap {"signature is invalid",
                          "token is expired", "token is not valid yet"} = {}
    /\ (Done(p) /\ KeyResolved(p) /\ ~SignatureOK(p)) =>
         Rejected(p) /\ res[p].err = {"signature is invalid"}

C11_Forward ==
  \A p \in Callers :
    /\ pc'[p] # pc[p] =>
         \/ pc[p] = "done" /\ pc'[p] = "idle"
         \/ pc[p] # "done" /\ StageRank(pc'[p]) > StageRank(pc[p])
    /\ (pc[p] = "done" /\ pc'[p] = "done") => res'[p] = res[p]
    /\ pc[p] \notin {"idle", "done"} => fetches'[p] >= fetches[p]

\* C11: a request goes through header, key resolution, signature and claims
\* in that order and never back; it ends accepted or rejected and the answer
\* stays; a request rejected at one stage has entered no later one (no key
\* looked up after a header or parse failure, no claims error reported after
\* a bad signature); one request issues at most one JWKS request.
C11_StagedPipeline == []C11_Stages /\ [][C11_Forward]_vars

C11_Witness ==
  \E p \in Callers :
    /\ Rejected(p) /\ KeyResolved(p) /\ ~SignatureOK(p) /\ fetches[p] = 1
    /\ tok[p].exp = 1 /\ now = 2
    /\ res[p].err = {"signature is invalid"}

\* C12 as stated: once a caller's JWKS request has returned a document,
\* every RSA key of that document is in the cache under its own kid, and a
\* caller that then asks for any kid of the document issues no request.
C12_AllKeysCached ==
  \A p \in Callers :
    outcome[p] = "ok" =>
      \A k \in Kids :
        FindKey(jwks, k) # NoKey =>
          /\ publicKeys[k] = FindKey(jwks, k)
          /\ \A q \in Callers :
               (now - lastUpdate < Hour /\ tok[q].kid = k) => pc[q] # "fetching"

C13_LockReleased ==
  \A p \in Callers :
    /\ pc[p] \in {"idle", "rlock", "lock", "verify", "done"} =>
         writer # p /\ p \notin readers
    /\ pc[p] = "lock" => p \notin readers
    /\ outcome[p] = "network error" =>
         Rejected(p) /\ res[p].err = {"failed to fetch JWKs"}

\* C13: every request that has entered key lookup ends, accepted or
\* rejected; outside the locked sections of getPublicKey a caller holds
\* neither the read nor the write lock, whichever path it left by; and a
\* JWKS request that failed or timed out ends its call with the
\* fetch-failed error.
C13_Terminates ==
  /\ []C13_LockReleased
  /\ \A p \in Callers :
       (pc[p] \notin {"idle", "done"}) ~> (Accepted(p) \/ Rejected(p))

C13_Witness ==
  \E p, q \in Callers :
    /\ Rejected(p) /\ outcome[p] = "network error" /\ writer # p
    /\ pc[q] \in {"lock", "lockwait"}

C14_CancelledFetchReturns ==
  \A p \in Callers :
    (pc[p] = "fetching" /\ cancelled[p] /\ pc'[p] # "fetching") =>
      /\ outcome'[p] = "ok" /\ writer' = 0 /\ cancelled'[p]
      /\ IF FindKey(jwks, tok[p].kid) # NoKey
         THEN /\ publicKeys'[tok[p].kid] = FindKey(jwks, tok[p].kid)
              /\ lastUpdate' = now
              /\ pc'[p] = "verify" /\ key'[p] = FindKey(jwks, tok[p].kid)
         ELSE res'[p].err = {"public key not found"}

\* C14: against a provider that answers, a JWKS request whose caller's
\* request was cancelled while it was in flight still returns the document:
\* the key it holds for the kid is stored with the time and handed to the
\* caller, and the key is in the cache for the callers after it; a
\* cancelled request never ends with the fetch-failed error.
C14_FetchOutlivesCancel ==
  /\ [][C14_CancelledFetchReturns]_vars
  /\ [](\A p \in Callers :
          /\ (cancelled[p] /\ pc[p] = "fetching") =>
               outcome[p] = "pending" /\ writer = p
          /\ (cancelled[p] /\ fetches[p] = 1 /\ pc[p] \in {"verify", "done"}) =>
               /\ outcome[p] = "ok"
               /\ key[p] # NoKey => publicKeys[tok[p].kid] = key[p]
               /\ Done(p) => res[p].err \cap RemoteUnavailable = {})

C14_Witness ==
  \E p \in Callers :
    /\ pc[p] = "fetching" /\ cancelled[p]
    /\ publicKeys[tok[p].kid] = NoKey
    /\ FindKey(jwks, tok[p].kid) # NoKey

\* The answer of a guard that stopped the request: 401, chain aborted, the
\* route handler not run, no identity value.
Stopped(c) ==
  c.http = 401 /\ c.aborted /\ ~c.next /\ c.ctx = NoCtx /\ c.err # {}

\* C15: a request without an Authorization header, or with one that does
\* not start with "Bearer ", is answered 401 by each of the three guards of
\* protected routes, with the chain aborted, the route handler not run and
\* no identity value set; ValidateJWT answers it on arrival, before any key
\* lookup.
C15_NoBearerStopped ==
  \A p \in Callers :
    (pc[p] # "idle" /\ tok[p].hdr # "bearer") =>
      /\ Rejected(p) /\ Stopped(res[p])
      /\ res[p].err \subseteq {"authorization header required",
                                "bearer token required"}
      /\ fetches[p] = 0 /\ key[p] = NoKey
      /\ Stopped(RequireAuthHeader(tok[p]))
      /\ Stopped(AuthMiddlewareHeader(tok[p]))

C15_Witness ==
  \E p \in Callers :
    /\ Rejected(p) /\ tok[p].hdr = "basic"
    /\ res[p].err = {"bearer token required"}
    /\ CacheHit("abc123")

\* C16: the JWK that holds the unpadded base64url of the big-endian bytes
\* of N and E of an RSA public key is reconstructed by parseRSAPublicKey as
\* that very N and E; the key a fetch stores and returns for it is that
\* key, and a token signed by its pair is accepted.
C16_RoundTrip ==
  \A pub \in Published :
    jwks = << pub.jwk >> =>
      /\ parseRSAPublicKey(jwks[1]) = [ok |-> TRUE, key |-> pub.key]
      /\ \A p \in Callers :
           /\ outcome[p] = "ok" =>
                key[p] = pub.key /\ publicKeys["abc123"] = pub.key
           /\ (Done(p) /\ tok[p].signer = pub.key) => Accepted(p)
           /\ (Done(p) /\ tok[p].signer # pub.key) => Rejected(p)

C16_Witness ==
  \E p \in Callers :
    /\ Accepted(p) /\ outcome[p] = "ok"
    /\ key[p] = [N |-> 65536, E |-> 65537]
    /\ jwks = << [kty |-> "RSA", kid |-> "abc123", n |-> <<"A","Q","A","A">>,
                  e |-> <<"A","Q","A","B">>] >>

C17_RecheckStep ==
  \A p \in Callers :
    (/\ pc[p] = "wcheck" /\ pc'[p] # "wcheck"
     /\ publicKeys[tok[p].kid] # NoKey /\ now - lastUpdate < Hour) =>
      /\ pc'[p] = "verify"
      /\ key'[p] = publicKeys[tok[p].kid]
      /\ fetches'[p] = 0 /\ outcome'[p] = "none"
      /\ writer' = 0

\* C17: a caller that missed under the read lock and now holds the write
\* lock tests the cache again: when the kid is there within the hour its
\* next step returns that key, releases the lock and issues no JWKS request;
\* no request is in flight for a kid the cache holds within the hour.
C17_DoubleCheck ==
  /\ [][C17_RecheckStep]_vars
  /\ [](\A p \in Callers : pc[p] = "fetching" => ~CacheHit(tok[p].kid))

C17_Witness ==
  \E p, q \in Callers :
    /\ p # q /\ pc[p] = "wcheck" /\ CacheHit(tok[p].kid)
    /\ tok[q].kid = tok[p].kid /\ outcome[q] = "ok" /\ lastUpdate = now

\* The kid is in the map and less than an hour has passed since the
\* recorded refresh.
Servable(kid) == publicKeys[kid] # NoKey /\ now - lastUpdate < Hour

C18_LookupStep ==
  \A p \in Callers :
    /\ (pc[p] = "rcheck" /\ pc'[p] # "rcheck") =>
         IF Servable(tok[p].kid)
         THEN /\ pc'[p] = "verify" /\ key'[p] = publicKeys[tok[p].kid]
              /\ fetches'[p] = 0 /\ writer' = writer
         ELSE pc'[p] = "lock" /\ key'[p] = NoKey
    /\ (pc[p] = "lock" /\ pc'[p] # "lock") =>
         pc'[p] = "lockwait" /\ writer' = p
    /\ (pc[p] = "wcheck" /\ pc'[p] # "wcheck" /\ ~Servable(tok[p].kid)) =>
         pc'[p] = "fetching" /\ fetches'[p] = 1 /\ writer' = p

\* C18: the lookup under the read lock returns the cached key, with no JWKS
\* request and no write lock, exactly when the kid is in the map and less
\* than an hour has passed since the recorded refresh; otherwise the caller
\* goes for the write lock and, when the second test fails too, sends a
\* JWKS request.
C18_CacheLookup ==
  /\ [][C18_LookupStep]_vars
  /\ [](\A p \in Callers :
          (pc[p] = "verify" /\ fetches[p] = 0) =>
             key[p] # NoKey /\ key[p] = publicKeys[tok[p].kid])

C18_Witness ==
  \E p \in Callers :
    /\ pc[p] = "rcheck" /\ publicKeys[tok[p].kid] # NoKey
    /\ now - lastUpdate = Hour

\* C19 as stated: a token without exp, or with exp not after the current
\* time, is never accepted, and when its signature verifies the rejection
\* is the expired error.
C19_ExpRequired ==
  \A p \in Callers :
    (Done(p) /\ HeaderOK(p) /\ (tok[p].exp = NoTime \/ tok[p].exp <= now)) =>
      /\ Rejected(p)
      /\ (ParsedOK(p) /\ SignatureOK(p)) =>
           res[p].err \cap {"token is expired", "Token expired"} # {}

\* C20 as stated: a token whose issuer is not the realm the middleware was
\* built for is never accepted, and when its signature verifies the
\* rejection is a claims error.
C20_ForeignIssuerRejected ==
  \A p \in Callers :
    (Done(p) /\ HeaderOK(p) /\ tok[p].iss # RealmIssuer) =>
      /\ Rejected(p)
      /\ (ParsedOK(p) /\ SignatureOK(p)) =>
           "token has invalid issuer" \in res[p].err

\* C21: a correctly signed token whose nbf is after the current time is
\* rejected with the not-valid-yet error; one without nbf, or with nbf at or
\* before the current time, is not rejected for that reason.
C21_NotBefore ==
  \A p \in Callers :
    (Done(p) /\ HeaderOK(p) /\ ParsedOK(p) /\ SignatureOK(p)) =>
      IF tok[p].nbf # NoTime /\ now < tok[p].nbf
      THEN Rejected(p) /\ "token is not valid yet" \in res[p].err
      ELSE "token is not valid yet" \notin res[p].err

C21_Witness ==
  \E p \in Callers :
    /\ Rejected(p) /\ SignatureOK(p) /\ tok[p].nbf = 1 /\ now = 0
    /\ tok[p].exp = MaxTime + 1
    /\ res[p].err = {"token is not valid yet"}

C22_NoLookupStep ==
  \A p \in Callers :
    (pc[p] = "idle" /\ pc'[p] # "idle" /\ ~(HeaderOK(p)' /\ ParsedOK(p)')) =>
      /\ pc'[p] = "done"
      /\ publicKeys' = publicKeys /\ lastUpdate' = lastUpdate
      /\ writer' = writer /\ readers' = readers

\* C22: a bearer token that does not have three segments, names a method
\* outside the RSA family or has no kid is answered on arrival: it never
\* enters getPublicKey, issues no JWKS request, and the step that answers it
\* leaves the key map, the refresh time and the lock as they were.
C22_RejectedBeforeLookup ==
  /\ [][C22_NoLookupStep]_vars
  /\ [](\A p \in Callers :
          (pc[p] # "idle" /\ HeaderOK(p) /\ ~ParsedOK(p)) =>
             /\ Rejected(p)
             /\ res[p].err \subseteq {"token is malformed",
                     "unexpected signing method", "kid header missing"}
             /\ fetches[p] = 0 /\ outcome[p] = "none" /\ key[p] = NoKey
             /\ p \notin readers /\ writer # p)

C22_Witness ==
  \E p \in Callers :
    /\ Rejected(p) /\ tok[p].alg = "HS256" /\ tok[p].kid = "k2"
    /\ res[p].err = {"unexpected signing method"}
    /\ publicKeys["k2"] = NoKey /\ FindKey(jwks, "k2") # NoKey

\* The positions of a document's entries that carry the kid, are of type
\* RSA and have a modulus and an exponent that decode.
Usable(doc, kid) ==
  { i \in 1..Len(doc) :
      /\ doc[i].kid = kid /\ doc[i].kty = "RSA"
      /\ DecodeString(doc[i].n).ok /\ DecodeString(doc[i].e).ok }

FirstUsable(doc, kid) ==
  CHOOSE i \in Usable(doc, kid) : \A j \in Usable(doc, kid) : i <= j

C23_SearchStep ==
  \A p \in Callers :
    (pc[p] = "fetching" /\ pc'[p] # "fetching" /\ outcome'[p] = "ok") =>
      IF Usable(jwks, tok[p].kid) = {}
      THEN /\ pc'[p] = "done"
           /\ res'[p].err = {"public key not found"}
           /\ publicKeys' = publicKeys /\ lastUpdate' = lastUpdate
      ELSE /\ pc'[p] = "verify"
           /\ key'[p] =
                parseRSAPublicKey(jwks[FirstUsable(jwks, tok[p].kid)]).key
           /\ publicKeys'[tok[p].kid] = key'[p]

\* C23: the search of a fetched document passes over the entries with the
\* kid that are not RSA keys or cannot be reconstructed and goes on to the
\* entries after them: it returns and stores the first usable one, and
\* without any it ends with key-not-found, never with another error, and
\* stores nothing; the map never holds anything but a published RSA key.
C23_UnusableEntriesSkipped ==
  /\ [][C23_SearchStep]_vars
  /\ [](\A k \in Kids : publicKeys[k] \in {NoKey, KeyA, KeyB})

C23_Witness ==
  \E p \in Callers :
    /\ Rejected(p) /\ outcome[p] = "ok" /\ tok[p].kid = "k2"
    /\ jwks = << JwkA, JwkBadK2 >>
    /\ res[p].err = {"public key not found"}
    /\ publicKeys["k2"] = NoKey

\* The callers inside a locked section of getPublicKey other than p.
OthersInside(p) ==
  { q \in Callers \ {p} : pc[q] \in {"rcheck", "wcheck", "fetching"} }

C24_WriteStep ==
  (publicKeys' # publicKeys \/ lastUpdate' # lastUpdate) =>
    \E p \in Callers :
      /\ pc[p] = "fetching" /\ writer = p /\ readers = {}
      /\ OthersInside(p) = {}
      /\ publicKeys'[tok[p].kid] \in {KeyA, KeyB}
      /\ \A k \in Kids \ {tok[p].kid} : publicKeys'[k] = publicKeys[k]
      /\ lastUpdate' = now
      /\ writer' = 0

\* C24: the key map and the refresh time change only in a step of the
\* caller that holds the write lock, while no other caller is inside a
\* locked section; the step puts one whole key under the caller's kid and
\* sets the time with it before the lock is released; a caller under the
\* read lock has no writer beside it.
C24_WritesUnderLock ==
  /\ [][C24_WriteStep]_vars
  /\ [](\A p \in Callers :
          pc[p] = "rcheck" =>
            p \in readers /\ \A q \in Callers : pc[q] \notin {"wcheck", "fetching"})

C24_Witness ==
  \E p, q \in Callers :
    /\ p # q /\ pc[p] = "verify" /\ outcome[p] = "ok" /\ lastUpdate = now
    /\ publicKeys[tok[p].kid] = key[p] /\ key[p] # NoKey
    /\ pc[q] = "rlock" /\ writer = 0

\* C25 as stated: a key the cache serves was itself fetched from the
\* provider less than an hour ago.
C25_ServedKeyFresh ==
  \A k \in Kids :
    CacheHit(k) => fetchedAt[k] # NoTime /\ now - fetchedAt[k] < Hour

C26_ErrorStep ==
  \A p \in Callers :
    (pc[p] = "fetching" /\ pc'[p] = "done") =>
      /\ publicKeys' = publicKeys /\ lastUpdate' = lastUpdate
      /\ key'[p] = NoKey /\ res'[p].http = 401

\* C26: the return of getPublicKey with an error, whether the JWKS request
\* failed, answered with another status, could not be decoded or did not
\* hold a usable key for the kid, leaves the key map and the refresh time
\* as they were; a call that ended in an error is a call that was answered
\* 401 without a key.
C26_ErrorLeavesCache ==
  /\ [][C26_ErrorStep]_vars
  /\ [](\A p \in Callers :
          (Done(p) /\ fetches[p] = 1 /\ key[p] = NoKey) =>
             /\ Rejected(p)
             /\ outcome[p] = "ok" => FindKey(jwks, tok[p].kid) = NoKey)

C26_Witness ==
  \E p \in Callers :
    /\ Rejected(p) /\ outcome[p] = "ok"
    /\ res[p].err = {"public key not found"}
    /\ publicKeys[tok[p].kid] # NoKey
    /\ lastUpdate = 0 /\ now = Hour

\* C27: a call whose JWKS request failed is rejected with the fetch error
\* and is given no key, also when the map still holds a key for the kid
\* from a refresh an hour or more ago that the token's signature would
\* verify against.
C27_NoStaleFallback ==
  \A p \in Callers :
    (pc[p] \in {"verify", "done"}
       /\ outcome[p] \in {"network error", "status", "bad json"}) =>
      /\ Rejected(p)
      /\ key[p] = NoKey
      /\ res[p].err \in {{"failed to fetch JWKs"},
                          {"failed to fetch JWKs: status"},
                          {"failed to decode JWKs"}}

C27_Witness ==
  \E p \in Callers :
    /\ Rejected(p) /\ outcome[p] = "network error"
    /\ publicKeys[tok[p].kid] = tok[p].signer
    /\ now - lastUpdate >= Hour /\ lastUpdate # ZeroTime
    /\ ExpiryOK(p) /\ NotBeforeOK(p) /\ tok[p].iss = RealmIssuer

\* Caller p waits for the mutex and the mutex cannot be given to it.
Blocked(p) ==
  \/ pc[p] = "rlock" /\ ~CanRLock
  \/ pc[p] = "lock" /\ ~CanAnnounce
  \/ pc[p] = "lockwait" /\ ~CanLock(p)

\* The callers inside getPublicKey.
InLookup ==
  { p \in Callers : pc[p] \in {"rlock", "rcheck", "lock", "lockwait",
                                 "wcheck", "fetching"} }

\* C28: a caller holds the read lock only while it tests the cache and has
\* given it back before it asks for the write lock; it never holds both
\* and holds neither outside getPublicKey; and whenever callers are inside
\* getPublicKey and no JWKS request is in flight, one of them can take its
\* next step.
C28_NoDeadlock ==
  /\ \A p \in Callers :
       /\ p \in readers <=> pc[p] = "rcheck"
       /\ writer = p <=> pc[p] \in {"lockwait", "wcheck", "fetching"}
       /\ ~(p \in readers /\ writer = p)
  /\ (InLookup # {} /\ \A p \in Callers : pc[p] # "fetching") =>
       \E p \in InLookup : ~Blocked(p)

C28_Witness ==
  \E p, q \in Callers :
    /\ pc[p] = "lockwait" /\ pc[q] = "rcheck" /\ Blocked(p)
    /\ writer = p /\ readers = {q}

\* C29 as stated: a caller about to look up a kid that is cached within the
\* hour is not held up while another caller's JWKS request for a different
\* kid is in flight.
C29_HitNotDelayedByFetch ==
  \A p, q \in Callers :
    (/\ pc[p] = "rlock" /\ CacheHit(tok[p].kid)
     /\ pc[q] = "fetching" /\ tok[q].kid # tok[p].kid) =>
      ~Blocked(p)

\* A call of getAdminToken takes one of its two tests.
C30_Tests(p) == apc[p] \in {"rcheck", "wcheck"} /\ apc'[p] # apc[p]

\* The token request of caller p comes back.
C30_Returns(p) == apc[p] = "posting" /\ apc'[p] = "done"

\* Caller q, which found no usable token at its first test, is at its
\* second; since its first test exactly one token request was sent, and
\* that request was given a token with a lifetime above the margin.
C30_Waited(q) ==
  /\ apc[q] = "wcheck"
  /\ posts = ares[q].seen + 1
  /\ lastPost.ok /\ lastPost.token # NoToken
  /\ lastPost.expires_in > Margin

C30_Step ==
  \A p \in Callers :
    /\ C30_Tests(p) =>
         /\ (apc'[p] = "done" /\ posts' = posts /\ ares'[p].err = ""
               /\ ares'[p].token = adminToken /\ ~ares'[p].posted)
              <=> AdminTokenUsable
         /\ ~AdminTokenUsable =>
              IF apc[p] = "rcheck"
              THEN apc'[p] = "lock" /\ posts' = posts
              ELSE apc'[p] = "posting" /\ posts' = posts + 1
    /\ (C30_Tests(p) /\ C30_Waited(p) /\ now + Margin < lastPost.at + lastPost.expires_in) =>
         /\ apc'[p] = "done" /\ posts' = posts
         /\ ares'[p].token = lastPost.token /\ ares'[p].err = ""
    /\ C30_Returns(p) =>
         /\ ares'[p].err # "" =>
              /\ adminToken' = adminToken /\ tokenExpiry' = tokenExpiry
              /\ ares'[p].token = NoToken
         /\ ares'[p].err = "" =>
              /\ ares'[p].token = adminToken'
              /\ tokenExpiry' = now + lastPost'.expires_in

\* C30 as stated, its second part: a caller that waited for the write lock
\* while the one token request since its first test succeeded with a
\* lifetime above 30 seconds finds the token usable at its second test, so
\* no second request is sent.
C30_OneRequestForAll ==
  \A q \in Callers : C30_Waited(q) => AdminTokenUsable

\* C30: each of the two tests of getAdminToken returns the stored token,
\* without a token request, exactly when the token is non-empty and the
\* clock is more than 30 seconds before its expiry; otherwise the first
\* test goes for the write lock and the second sends one token request.  A
\* caller that waited for the lock while one request succeeded with a
\* lifetime above 30 seconds sends none and returns that request's token,
\* provided it makes its second test more than 30 seconds before that
\* token expires.  A failed token request leaves token and expiry as they
\* were and returns no token.
C30_AdminToken == [][C30_Step]_vars

\* Both callers found no token; caller p's request was given a token that
\* is still usable, and caller q, which waited for the lock, is at its
\* second test.
C30_Witness ==
  \E p, q \in Callers :
    /\ p # q /\ apc[p] = "done" /\ ares[p].posted /\ ares[p].err = ""
    /\ C30_Waited(q) /\ AdminTokenUsable /\ ares[p].token = adminToken

====
